---- MODULE Spec2Model ----
(***************************************************************************)
(* A model of RpcSession (libs/binder/RpcSession.cpp): the two connection  *)
(* pools, exclusive acquisition of a connection (ExclusiveConnection),     *)
(* the incoming worker threads and shutdown.                               *)
(*                                                                         *)
(* Every section of code that runs under RpcSession::mMutex is one atomic  *)
(* action; a thread's position between two such sections is its pc.        *)
(***************************************************************************)
EXTENDS Integers, Sequences, FiniteSets, TLC

\* ---------------------------------------------------------------- bounds
NumCallers == 2      \* threads that call transact / sendDecStrong
NumWorkers == 2      \* incoming worker threads
PeerConnections == 1 \* incoming connections the peer opens to a server's session
ClientCallers == 1   \* callers of a client session that is set up and shut down
ClientCalls == 1     \* calls each of them makes
MaxOut == 2          \* outgoing connections a session is given
MaxDepth == 2        \* ExclusiveConnection objects alive on one call stack
MaxWaiting == 3      \* cap of the counter mWaitingThreads
MaxCalls == 2        \* calls per caller in the bounded workload

\* ---------------------------------------------------------------- threads
Callers == 1..NumCallers
Workers == (NumCallers + 1)..(NumCallers + NumWorkers)
AdderTid == NumCallers + NumWorkers + 1
SetupTid == AdderTid
ShutdownTid == NumCallers + NumWorkers + 2
Threads == 1..ShutdownTid
NoTid == 0           \* std::nullopt in RpcConnection::exclusiveTid

CLIENT == "CLIENT"
CLIENT_ASYNC == "CLIENT_ASYNC"
CLIENT_REFCOUNT == "CLIENT_REFCOUNT"
ConnectionUse == {CLIENT, CLIENT_ASYNC, CLIENT_REFCOUNT}

NoUse == "NONE"      \* no find in progress
Unlimited == 0 - 1     \* a caller whose number of calls is not bounded
NullConn == [pool |-> "none", id |-> 0]
NoVersion == 0 - 1

VARIABLES
    mOutgoingConnections,       \* sequence of RpcConnection
    mIncomingConnections,       \* sequence of RpcConnection
    mOutgoingConnectionsOffset,
    mWaitingThreads,
    mThreads,                   \* keys of the map mThreads
    mMaxThreads,
    mMaxIncomingConnections,
    mShutdownTrigger,           \* "null", "armed" or "fired"
    mEventListener,             \* "null", "shutdown" (WaitForShutdownListener) or "server"
    mShutdown,                  \* WaitForShutdownListener::mShutdown
    pc,                         \* position of each thread
    handles,                    \* per thread: the stack of live ExclusiveConnection objects
    use,                        \* per thread: the ConnectionUse of its find in progress
    status,                     \* per thread: the status_t its last call step produced
    callsLeft,                  \* per caller: calls still to issue
    completed,                  \* calls of the bounded workload that returned OK
    workload,                   \* the bounded workload: n callers of m calls each
    allEnded,                   \* times onSessionAllIncomingThreadsEnded was delivered
    removedIncoming,            \* removeIncomingConnection has erased a connection
    mProtocolVersion,           \* std::optional<uint32_t>, NoVersion for nullopt
    mId,                        \* std::optional<RpcAddress>: "none", "zero" or an id
    unguarded,                  \* session fields accessed so far without mMutex held
    setup                       \* the thread that sets the session up: where it is

vars == <<mOutgoingConnections, mIncomingConnections, mOutgoingConnectionsOffset,
          mWaitingThreads, mThreads, mMaxThreads, mMaxIncomingConnections,
          mShutdownTrigger, mEventListener, mShutdown, pc, handles, use, status,
          callsLeft, completed, workload, allEnded, removedIncoming,
          mProtocolVersion, mId, unguarded, setup>>

poolVars == <<mOutgoingConnections, mIncomingConnections, mOutgoingConnectionsOffset,
              mWaitingThreads>>
workVars == <<callsLeft, completed, workload>>
guardedVars == <<mThreads, mMaxThreads, mMaxIncomingConnections, mShutdownTrigger,
                 mEventListener, mShutdown, allEnded, removedIncoming, mProtocolVersion>>
sessionVars == <<guardedVars, mId, unguarded>>

\* ------------------------------------------------------------ RpcConnection
RpcConnection(i, tid) == [id |-> i, exclusiveTid |-> tid, allowNested |-> FALSE]

OutRef(i) == [pool |-> "out", id |-> i]
InRef(i) == [pool |-> "in", id |-> i]

\* index in mIncomingConnections of the connection with this id, 0 when absent
IncomingIndex(i) ==
    IF \E k \in 1..Len(mIncomingConnections) : mIncomingConnections[k].id = i
    THEN CHOOSE k \in 1..Len(mIncomingConnections) : mIncomingConnections[k].id = i
    ELSE 0

\* -------------------------------------------- ExclusiveConnection::findConnection
RECURSIVE findConnectionLoop(_, _, _, _, _, _, _)
findConnectionLoop(tid, sockets, socketsIndexHint, wantAvailable, i, exclusive, available) ==
    IF i >= Len(sockets)
    THEN [exclusive |-> exclusive, available |-> available]
    ELSE LET idx == ((i + socketsIndexHint) % Len(sockets)) + 1
             socket == sockets[idx]
         IN IF wantAvailable /\ available = 0 /\ socket.exclusiveTid = NoTid
            THEN findConnectionLoop(tid, sockets, socketsIndexHint, wantAvailable,
                                    i + 1, exclusive, idx)
            ELSE IF socket.exclusiveTid = tid
                 THEN [exclusive |-> idx, available |-> available]
                 ELSE findConnectionLoop(tid, sockets, socketsIndexHint, wantAvailable,
                                         i + 1, exclusive, available)

\* faulty variant: the scan starts at the first socket whatever the hint
findConnectionFromStart(tid, exclusive, wantAvailable, sockets, socketsIndexHint) ==
    IF exclusive # 0
    THEN [exclusive |-> exclusive, available |-> 0]
    ELSE findConnectionLoop(tid, sockets, 0, wantAvailable, 0, 0, 0)

\* the two candidates as 1-based positions in sockets, 0 for nullptr
findConnection(tid, exclusive, wantAvailable, sockets, socketsIndexHint) ==
    IF exclusive # 0
    THEN [exclusive |-> exclusive, available |-> 0]
    ELSE findConnectionLoop(tid, sockets, socketsIndexHint, wantAvailable, 0, 0, 0)

\* LOG_ALWAYS_FATAL_IF at the top of findConnection
BadIndexHint(sockets, socketsIndexHint) ==
    Len(sockets) > 0 /\ socketsIndexHint >= Len(sockets)

\* ------------------------------------------------ ExclusiveConnection::find
\* faulty variant: the rotation does not wrap around
NextOffsetNoWrap(u, found) ==
    IF u = CLIENT_ASYNC /\ found
    THEN mOutgoingConnectionsOffset + 1
    ELSE mOutgoingConnectionsOffset

\* faulty variant: the offset rotates for every use
NextOffsetAnyUse(u, found) ==
    IF found
    THEN (mOutgoingConnectionsOffset + 1) % Len(mOutgoingConnections)
    ELSE mOutgoingConnectionsOffset

\* the rotation of mOutgoingConnectionsOffset after the scan of the outgoing pool
NextOffset(u, found) ==
    IF u = CLIENT_ASYNC /\ found
    THEN (mOutgoingConnectionsOffset + 1) % Len(mOutgoingConnections)
    ELSE mOutgoingConnectionsOffset

\* faulty variant: the incoming pool is looked at for every use
ScansIncomingAlways(u) == TRUE

\* if (use != ConnectionUse::CLIENT_ASYNC): the incoming pool is looked at
ScansIncoming(u) == u # CLIENT_ASYNC

\* faulty variant: the incoming connection is only the fallback of a refcount call
UseServingSocketFallbackOnly(u, exclusiveIncoming, available) ==
    /\ exclusiveIncoming # 0
    /\ u = CLIENT_REFCOUNT
    /\ available = 0

\* faulty variant: the incoming connection is never the fallback of a refcount call
UseServingSocketNestedOnly(u, exclusiveIncoming, available) ==
    /\ exclusiveIncoming # 0
    /\ mIncomingConnections[exclusiveIncoming].allowNested

\* whether the thread's own incoming connection replaces the outgoing candidate
UseServingSocket(u, exclusiveIncoming, available) ==
    /\ exclusiveIncoming # 0
    /\ \/ mIncomingConnections[exclusiveIncoming].allowNested
       \/ (u = CLIENT_REFCOUNT /\ available = 0)

\* faulty variant: find waits even when the outgoing pool is empty
NothingToWaitForNever == FALSE

\* if (session->mOutgoingConnections.size() == 0) return WOULD_BLOCK
NothingToWaitFor == Len(mOutgoingConnections) = 0

\* one pass of the while (true) loop of find, as the decision it takes
FindPass(tid, u) ==
    LET out == findConnection(tid, 0, TRUE, mOutgoingConnections,
                              mOutgoingConnectionsOffset)
        inc == IF ScansIncoming(u)
               THEN findConnection(tid, 0, FALSE, mIncomingConnections, 0)
               ELSE [exclusive |-> 0, available |-> 0]
        serving == ScansIncoming(u) /\ UseServingSocket(u, inc.exclusive, out.available)
        exclusive == IF serving THEN InRef(mIncomingConnections[inc.exclusive].id)
                     ELSE IF out.exclusive # 0 THEN OutRef(out.exclusive)
                     ELSE NullConn
    IN [offset |-> NextOffset(u, out.exclusive # 0 \/ out.available # 0),
        result |-> IF exclusive # NullConn THEN "exclusive"
                   ELSE IF out.available # 0 THEN "available"
                   ELSE IF NothingToWaitFor THEN "would_block"
                   ELSE "wait",
        conn |-> IF exclusive # NullConn THEN exclusive
                 ELSE IF out.available # 0 THEN OutRef(out.available)
                 ELSE NullConn]

\* where a thread continues when the call it made has returned
BasePc(t) == IF t \in Workers THEN "exec" ELSE "idle"
ReturnPc(t, stack) == IF Len(stack) > 0 THEN "io" ELSE BasePc(t)

\* faulty variant: every handle is made non-reentrant
HandleNonReentrant(c, r, u) == [conn |-> c, reentrant |-> FALSE, use |-> u]

\* the ExclusiveConnection that find fills in
Handle(c, r, u) == [conn |-> c, reentrant |-> r, use |-> u]

\* session->mWaitingThreads--, on the way out of the loop
LeaveWaiting(n) == n - 1

\* the pass of find a thread runs under mMutex; entering is TRUE for the first one
FindStep(t, u, entering) ==
    LET p == FindPass(t, u)
        waiting == IF entering THEN mWaitingThreads + 1 ELSE mWaitingThreads
    IN /\ mOutgoingConnectionsOffset' = p.offset
       /\ CASE p.result = "exclusive" ->
                 /\ handles' = [handles EXCEPT ![t] = Append(@, Handle(p.conn, TRUE, u))]
                 /\ mWaitingThreads' = LeaveWaiting(waiting)
                 /\ pc' = [pc EXCEPT ![t] = "io"]
                 /\ use' = [use EXCEPT ![t] = NoUse]
                 /\ UNCHANGED <<mOutgoingConnections, status>>
            [] p.result = "available" ->
                 /\ handles' = [handles EXCEPT ![t] = Append(@, Handle(p.conn, FALSE, u))]
                 /\ mOutgoingConnections' =
                        [mOutgoingConnections EXCEPT ![p.conn.id].exclusiveTid = t]
                 /\ mWaitingThreads' = LeaveWaiting(waiting)
                 /\ pc' = [pc EXCEPT ![t] = "io"]
                 /\ use' = [use EXCEPT ![t] = NoUse]
                 /\ UNCHANGED status
            [] p.result = "would_block" ->
                 /\ mWaitingThreads' = waiting
                 /\ pc' = [pc EXCEPT ![t] = "ret"]
                 /\ status' = [status EXCEPT ![t] = "WOULD_BLOCK"]
                 /\ use' = [use EXCEPT ![t] = u]
                 /\ UNCHANGED <<handles, mOutgoingConnections>>
            [] p.result = "wait" ->
                 /\ mWaitingThreads' = waiting
                 /\ pc' = [pc EXCEPT ![t] = "find_wait"]
                 /\ use' = [use EXCEPT ![t] = u]
                 /\ UNCHANGED <<handles, mOutgoingConnections, status>>

\* threads blocked in mAvailableConnectionCv.wait
CvWaiters == {t \in Threads : pc[t] = "find_wait"}

\* ------------------------------------------------------------- outgoing calls
\* transact (CLIENT, CLIENT_ASYNC) and sendDecStrong (CLIENT_REFCOUNT) of a caller:
\* entry of ExclusiveConnection::find and its first pass
Transact(t, u) ==
    /\ pc[t] = "idle"
    /\ callsLeft[t] # 0
    /\ mWaitingThreads < MaxWaiting
    /\ FindStep(t, u, TRUE)
    /\ callsLeft' = [callsLeft EXCEPT ![t] = IF @ = Unlimited THEN @ ELSE @ - 1]
    /\ UNCHANGED <<mIncomingConnections, sessionVars, completed, workload, setup>>

\* a call made by a thread that is inside a call or inside an incoming command
NestedCall(t, u) ==
    /\ pc[t] \in {"io", "exec"}
    /\ Len(handles[t]) < MaxDepth
    /\ mWaitingThreads < MaxWaiting
    /\ FindStep(t, u, TRUE)
    /\ UNCHANGED <<mIncomingConnections, sessionVars, workVars, setup>>

\* mAvailableConnectionCv.wait returns after a notify: the next pass of the loop
FindRetry(t) ==
    /\ pc[t] = "find_woken"
    /\ FindStep(t, use[t], FALSE)
    /\ UNCHANGED <<mIncomingConnections, sessionVars, workVars, setup>>

\* std::condition_variable::wait may return without a notify
SpuriousWakeup(t) ==
    /\ pc[t] = "find_wait"
    /\ pc' = [pc EXCEPT ![t] = "find_woken"]
    /\ UNCHANGED <<poolVars, sessionVars, handles, use, status, workVars, setup>>

\* the call hands its status to its caller
CallReturn(t) ==
    /\ pc[t] = "ret"
    /\ pc' = [pc EXCEPT ![t] = ReturnPc(t, handles[t])]
    /\ status' = [status EXCEPT ![t] = "NONE"]
    /\ use' = [use EXCEPT ![t] = NoUse]
    /\ completed' = IF t \in Callers /\ handles[t] = <<>> /\ status[t] = "OK"
                       /\ callsLeft[t] # Unlimited
                    THEN completed + 1 ELSE completed
    /\ UNCHANGED <<poolVars, sessionVars, handles, callsLeft, workload, setup>>

\* ---------------------------------------- ExclusiveConnection::~ExclusiveConnection
Top(stack) == stack[Len(stack)]
Pop(stack) == SubSeq(stack, 1, Len(stack) - 1)

\* faulty variant: the destructor ignores mReentrant
GivesUpAlways(h) == h.conn # NullConn

\* whether the destructor gives up the connection
GivesUp(h) == ~h.reentrant /\ h.conn # NullConn

\* faulty variant: the destructor leaves the owner in place
ClearOwnerNot(conns, h) == conns

\* mConnection->exclusiveTid = std::nullopt
ClearOwner(conns, h) ==
    IF h.conn.pool = "out" THEN [conns EXCEPT ![h.conn.id].exclusiveTid = NoTid] ELSE conns

\* faulty variant: the destructor never notifies
ShouldNotifyNever == FALSE

\* if (mSession->mWaitingThreads > 0)
ShouldNotify == mWaitingThreads > 0

\* the destructor of the innermost handle of t. notify_one runs after the unlock;
\* it wakes one thread blocked in the wait, if there is one
Destroy(t) ==
    LET h == Top(handles[t])
    IN /\ handles' = [handles EXCEPT ![t] = Pop(@)]
       /\ IF GivesUp(h)
          THEN /\ mOutgoingConnections' = ClearOwner(mOutgoingConnections, h)
               /\ IF ShouldNotify /\ CvWaiters # {}
                  THEN \E w \in CvWaiters :
                           pc' = [pc EXCEPT ![t] = "ret", ![w] = "find_woken"]
                  ELSE pc' = [pc EXCEPT ![t] = "ret"]
          ELSE /\ UNCHANGED mOutgoingConnections
               /\ pc' = [pc EXCEPT ![t] = "ret"]

\* the transport I/O of state()->transact and the like ends by the peer's doing,
\* and the call's ExclusiveConnection goes out of scope
IoComplete(t, s) ==
    /\ pc[t] = "io"
    /\ mShutdownTrigger # "fired"
    /\ s \in {"OK", "DEAD_OBJECT"}
    /\ status' = [status EXCEPT ![t] = s]
    /\ Destroy(t)
    /\ UNCHANGED <<mIncomingConnections, mOutgoingConnectionsOffset, mWaitingThreads,
                   sessionVars, use, workVars, setup>>

\* ... or by the shutdown trigger
IoCancel(t) ==
    /\ pc[t] = "io"
    /\ mShutdownTrigger = "fired"
    /\ status' = [status EXCEPT ![t] = "CANCELLED"]
    /\ Destroy(t)
    /\ UNCHANGED <<mIncomingConnections, mOutgoingConnectionsOffset, mWaitingThreads,
                   sessionVars, use, workVars, setup>>

\* ------------------------------------------------- addOutgoingConnection
\* first locked section: the new connection enters the pool owned by the adding thread
PushOutgoing(t) ==
    /\ mOutgoingConnections' =
           Append(mOutgoingConnections, RpcConnection(Len(mOutgoingConnections) + 1, t))
    /\ pc' = [pc EXCEPT ![t] = "add_init"]

\* an RpcServer adds an outgoing connection to its session
AddOutgoingBegin(t) ==
    /\ pc[t] = "idle"
    /\ Len(mOutgoingConnections) < MaxOut
    /\ PushOutgoing(t)
    /\ UNCHANGED <<mIncomingConnections, mOutgoingConnectionsOffset, mWaitingThreads,
                   sessionVars, handles, use, status, workVars, setup>>

\* the connection the thread is adding: the one it pushed
AddedIndex(t) ==
    CHOOSE i \in 1..Len(mOutgoingConnections) :
        /\ mOutgoingConnections[i].exclusiveTid = t
        /\ \A h \in {handles[t][k] : k \in 1..Len(handles[t])} : h.conn # OutRef(i)

\* after sendConnectionInit: second locked section, connection->exclusiveTid = nullopt.
\* Nothing is notified
ReleaseAdded(t) ==
    /\ mOutgoingConnections' =
           [mOutgoingConnections EXCEPT ![AddedIndex(t)].exclusiveTid = NoTid]
    /\ pc' = [pc EXCEPT ![t] = "idle"]

AddOutgoingEnd(t) ==
    /\ pc[t] = "add_init"
    /\ ReleaseAdded(t)
    /\ UNCHANGED <<mIncomingConnections, mOutgoingConnectionsOffset, mWaitingThreads,
                   sessionVars, handles, use, status, workVars, setup>>


\* ------------------------------------------------------ incoming worker threads
\* preJoinThreadOwnership: mThreads[thread.get_id()] = std::move(thread)
PreJoinThreadOwnership(w) ==
    /\ pc[w] = "w_new"
    /\ mThreads' = mThreads \cup {w}
    /\ pc' = [pc EXCEPT ![w] = "w_registered"]
    /\ UNCHANGED <<poolVars, mMaxThreads, mMaxIncomingConnections, mShutdownTrigger,
                   mEventListener, mShutdown, allEnded, removedIncoming, mProtocolVersion, mId, unguarded, handles, use, status,
                   workVars, setup>>

\* faulty variant: only the bound mMaxThreads rejects
RejectsIncomingOverMaxOnly == Len(mIncomingConnections) >= mMaxThreads

\* the two rejections of assignIncomingConnectionToThisThread
RejectsIncoming ==
    \/ Len(mIncomingConnections) >= mMaxThreads
    \/ Len(mIncomingConnections) < mMaxIncomingConnections

\* preJoinSetup, its call of assignIncomingConnectionToThisThread
AssignIncomingConnectionToThisThread(w) ==
    /\ pc[w] = "w_registered"
    /\ IF RejectsIncoming
       THEN /\ status' = [status EXCEPT ![w] = "DEAD_OBJECT"]
            /\ pc' = [pc EXCEPT ![w] = "w_join"]
            /\ UNCHANGED <<mIncomingConnections, mMaxIncomingConnections>>
       ELSE /\ mIncomingConnections' = Append(mIncomingConnections, RpcConnection(w, w))
            /\ mMaxIncomingConnections' = Len(mIncomingConnections) + 1
            /\ pc' = [pc EXCEPT ![w] = "w_init"]
            /\ UNCHANGED status
    /\ UNCHANGED <<mOutgoingConnections, mOutgoingConnectionsOffset, mWaitingThreads,
                   mThreads, mMaxThreads, mShutdownTrigger, mEventListener, mShutdown,
                   allEnded, removedIncoming, mProtocolVersion, mId, unguarded, handles, use, workVars, setup>>

\* preJoinSetup, its call of mState->readConnectionInit
ReadConnectionInit(w, s) ==
    /\ pc[w] = "w_init"
    /\ s \in (IF mShutdownTrigger = "fired" THEN {"CANCELLED"} ELSE {"OK", "DEAD_OBJECT"})
    /\ status' = [status EXCEPT ![w] = s]
    /\ pc' = [pc EXCEPT ![w] = "w_join"]
    /\ UNCHANGED <<poolVars, sessionVars, handles, use, workVars, setup>>

\* join: the command loop is entered only if setupResult.status == OK
JoinStart(w) ==
    /\ pc[w] = "w_join"
    /\ pc' = [pc EXCEPT ![w] = IF status[w] = "OK" THEN "w_read" ELSE "w_exit1"]
    /\ status' = [status EXCEPT ![w] = "NONE"]
    /\ UNCHANGED <<poolVars, sessionVars, handles, use, workVars, setup>>

\* RpcState marks the connection while it runs a command: nested calls are
\* allowed under a synchronous transaction, not under a oneway one
SetAllowNested(conns, w, b) ==
    [k \in 1..Len(conns) |-> IF conns[k].id = w THEN [conns[k] EXCEPT !.allowNested = b]
                             ELSE conns[k]]

\* getAndExecuteCommand reads a command and starts to execute it
CommandArrives(w, oneway) ==
    /\ pc[w] = "w_read"
    /\ mShutdownTrigger # "fired"
    /\ mIncomingConnections' = SetAllowNested(mIncomingConnections, w, ~oneway)
    /\ pc' = [pc EXCEPT ![w] = "exec"]
    /\ UNCHANGED <<mOutgoingConnections, mOutgoingConnectionsOffset, mWaitingThreads,
                   sessionVars, handles, use, status, workVars, setup>>

\* the command ends; getAndExecuteCommand returns s
CommandDone(w, s) ==
    /\ pc[w] = "exec"
    /\ handles[w] = <<>>
    /\ s \in (IF mShutdownTrigger = "fired" THEN {"CANCELLED"} ELSE {"OK", "DEAD_OBJECT"})
    /\ mIncomingConnections' = SetAllowNested(mIncomingConnections, w, FALSE)
    /\ pc' = [pc EXCEPT ![w] = IF s = "OK" THEN "w_read" ELSE "w_exit1"]
    /\ UNCHANGED <<mOutgoingConnections, mOutgoingConnectionsOffset, mWaitingThreads,
                   sessionVars, handles, use, status, workVars, setup>>

\* getAndExecuteCommand fails while it waits for a command: the peer closed
WorkerReadFail(w) ==
    /\ pc[w] = "w_read"
    /\ mShutdownTrigger # "fired"
    /\ pc' = [pc EXCEPT ![w] = "w_exit1"]
    /\ UNCHANGED <<poolVars, sessionVars, handles, use, status, workVars, setup>>

\* ... or the shutdown trigger fired
WorkerReadCancel(w) ==
    /\ pc[w] = "w_read"
    /\ mShutdownTrigger = "fired"
    /\ pc' = [pc EXCEPT ![w] = "w_exit1"]
    /\ UNCHANGED <<poolVars, sessionVars, handles, use, status, workVars, setup>>

\* join, after the loop: session->mThreads.erase(it)
JoinEraseThread(w) ==
    /\ pc[w] = "w_exit1"
    /\ mThreads' = mThreads \ {w}
    /\ pc' = [pc EXCEPT ![w] = IF IncomingIndex(w) # 0 THEN "w_exit2" ELSE "w_exit3"]
    /\ UNCHANGED <<poolVars, mMaxThreads, mMaxIncomingConnections, mShutdownTrigger,
                   mEventListener, mShutdown, allEnded, removedIncoming, mProtocolVersion, mId, unguarded, handles, use, status,
                   workVars, setup>>

\* faulty variant: the connection stays in the pool
EraseIncomingNot(conns, w) == conns

\* mIncomingConnections.erase(it)
EraseIncoming(conns, w) == SelectSeq(conns, LAMBDA c : c.id # w)

\* removeIncomingConnection: the listener is called when the pool became empty
RemoveIncomingConnection(w) ==
    /\ pc[w] = "w_exit2"
    /\ mIncomingConnections' = EraseIncoming(mIncomingConnections, w)
    /\ pc' = [pc EXCEPT ![w] =
                 IF Len(mIncomingConnections') = 0 /\ mEventListener # "null"
                 THEN "w_allended" ELSE "w_exit3"]
    /\ removedIncoming' = TRUE
    /\ UNCHANGED <<mOutgoingConnections, mOutgoingConnectionsOffset, mWaitingThreads,
                   mThreads, mMaxThreads, mMaxIncomingConnections, mShutdownTrigger,
                   mEventListener, mShutdown, allEnded, mProtocolVersion, mId, unguarded,
                   handles, use, status, workVars, setup>>

\* listener->onSessionAllIncomingThreadsEnded, called with the mutex unlocked
OnSessionAllIncomingThreadsEnded(w) ==
    /\ pc[w] = "w_allended"
    /\ mShutdown' = (mShutdown \/ mEventListener = "shutdown")
    /\ allEnded' = allEnded + 1
    /\ pc' = [pc EXCEPT ![w] = "w_exit3"]
    /\ UNCHANGED <<poolVars, mThreads, mMaxThreads, mMaxIncomingConnections,
                   mShutdownTrigger, mEventListener, removedIncoming, mProtocolVersion, mId, unguarded,
                   handles, use, status, workVars, setup>>

\* listener->onSessionIncomingThreadEnded: the waiter in waitForShutdown is woken
OnSessionIncomingThreadEnded(w) ==
    /\ pc[w] = "w_exit3"
    /\ pc' = [pc EXCEPT ![w] = "w_done"]
    /\ UNCHANGED <<poolVars, sessionVars, handles, use, status, workVars, setup>>

\* ----------------------------------------------------------------- a session
\* that an RpcServer set up (setForServer): the server's threads add outgoing
\* connections and run incoming workers as the peer opens connections
InitThreads ==
    /\ removedIncoming = FALSE
    /\ mProtocolVersion = NoVersion
    /\ handles = [t \in Threads |-> <<>>]
    /\ use = [t \in Threads |-> NoUse]
    /\ status = [t \in Threads |-> "NONE"]
    /\ completed = 0
    /\ allEnded = 0

InitEmptySession ==
    /\ mOutgoingConnections = <<>>
    /\ mIncomingConnections = <<>>
    /\ mOutgoingConnectionsOffset = 0
    /\ mWaitingThreads = 0
    /\ mThreads = {}
    /\ mMaxIncomingConnections = 0
    /\ mShutdown = FALSE

\* a worker thread exists once a connection was accepted for it
ServerWorkers == {w \in Workers : w < NumCallers + 1 + PeerConnections}

\* where the thread that sets the session up is: kind is the connectAndInit
\* callback ("socket" for setupSocketClient, "preconnected" for
\* setupPreconnectedClient, "none" for a session of an RpcServer), stage the
\* statement of setupClient, i and numThreadsAvailable its locals, tries and
\* connErrno the locals of setupOneSocketConnection, status what setup returned,
\* addrs the addresses setupInetClient has not tried yet, headers the
\* RpcConnectionHeaders this setupClient has written so far
SetupRecord(kind, stage, i, n) ==
    [kind |-> kind, stage |-> stage, i |-> i, numThreadsAvailable |-> n,
     tries |-> 0, connErrno |-> "NONE",
     status |-> IF stage \in {"done", "null_done"} THEN "OK" ELSE "NONE",
     addrs |-> 0, headers |-> <<>>]

SetupAt(stage, i, n) ==
    [SetupRecord(setup.kind, stage, i, n)
         EXCEPT !.addrs = setup.addrs, !.headers = setup.headers]

\* setup returns the error s
SetupReturn(s) == [SetupAt("failed", 0, 0) EXCEPT !.status = s]

\* setForServer: mId = sessionId, with mMutex not held
SetForServer == mId = "id" /\ unguarded = {"mId"}

Init ==
    /\ InitEmptySession
    /\ InitThreads
    /\ pc = [t \in Threads |-> IF t \in ServerWorkers THEN "w_new"
                                ELSE IF t \in Workers THEN "w_unborn" ELSE "idle"]
    /\ mMaxThreads \in 0..PeerConnections
    /\ mShutdownTrigger = "armed"
    /\ mEventListener = "server"
    /\ workload = [n |-> NumCallers, m |-> Unlimited]
    /\ callsLeft = [t \in Threads |-> IF t \in Callers THEN Unlimited ELSE 0]
    /\ setup = SetupRecord("none", "server", 0, 0)
    /\ SetForServer

CallStep ==
    \/ \E t \in Callers, u \in ConnectionUse : Transact(t, u)
    \/ \E t \in Callers \cup Workers, u \in ConnectionUse : NestedCall(t, u)
    \/ \E t \in Threads : FindRetry(t)
    \/ \E t \in Threads : SpuriousWakeup(t)
    \/ \E t \in Threads : CallReturn(t)
    \/ \E t \in Threads, s \in {"OK", "DEAD_OBJECT"} : IoComplete(t, s)

WorkerStep ==
    \/ \E w \in Workers : PreJoinThreadOwnership(w)
    \/ \E w \in Workers : AssignIncomingConnectionToThisThread(w)
    \/ \E w \in Workers, s \in {"OK", "DEAD_OBJECT", "CANCELLED"} : ReadConnectionInit(w, s)
    \/ \E w \in Workers : JoinStart(w)
    \/ \E w \in Workers, oneway \in BOOLEAN : CommandArrives(w, oneway)
    \/ \E w \in Workers, s \in {"OK", "DEAD_OBJECT", "CANCELLED"} : CommandDone(w, s)
    \/ \E w \in Workers : WorkerReadFail(w)
    \/ \E w \in Workers : JoinEraseThread(w)
    \/ \E w \in Workers : RemoveIncomingConnection(w)
    \/ \E w \in Workers : OnSessionAllIncomingThreadsEnded(w)
    \/ \E w \in Workers : OnSessionIncomingThreadEnded(w)

Next ==
    \/ CallStep
    \/ WorkerStep
    \/ AddOutgoingBegin(AdderTid)
    \/ AddOutgoingEnd(AdderTid)

Spec == Init /\ [][Next]_vars


\* ------------------------------------------------------------- setMaxThreads
\* a thread of the application calls setMaxThreads(threads). The call aborts
\* (LOG_ALWAYS_FATAL_IF) unless both pools are empty
SetMaxThreads(threads) ==
    /\ Len(mOutgoingConnections) = 0
    /\ Len(mIncomingConnections) = 0
    /\ mMaxThreads' = threads
    /\ UNCHANGED <<poolVars, mThreads, mMaxIncomingConnections, mShutdownTrigger,
                   mEventListener, mShutdown, allEnded, removedIncoming,
                   mProtocolVersion, mId, unguarded, pc, handles, use, status, workVars, setup>>

\* ------------------------------------------------- a server's session and its
\* incoming connections: the peer opens NumWorkers incoming connections, the
\* server adds outgoing ones, the application sets the number of threads
\* RpcWireFormat.h: the first version that is not released yet, and the
\* version of development builds (a number above every released one)
RPC_WIRE_PROTOCOL_VERSION_NEXT == 2

RPC_WIRE_PROTOCOL_VERSION_EXPERIMENTAL == 4

\* the versions a caller or a peer may name
MaxVersion == 4

\* version >= RPC_WIRE_PROTOCOL_VERSION_NEXT && version != RPC_WIRE_PROTOCOL_VERSION_EXPERIMENTAL
UnknownVersion(version) ==
    version >= RPC_WIRE_PROTOCOL_VERSION_NEXT /\ version # RPC_WIRE_PROTOCOL_VERSION_EXPERIMENTAL

\* mProtocolVersion && version > *mProtocolVersion
RaisesVersion(version) == mProtocolVersion # NoVersion /\ version > mProtocolVersion

\* what setProtocolVersion returns
setProtocolVersionUncapped(version) == ~UnknownVersion(version)

setProtocolVersion(version) == ~UnknownVersion(version) /\ ~RaisesVersion(version)

\* the thread t calls setProtocolVersion(version)
SetProtocolVersion(t, version) ==
    /\ pc[t] = "idle"
    /\ status' = [status EXCEPT ![t] = IF setProtocolVersion(version) THEN "true" ELSE "false"]
    /\ mProtocolVersion' = IF setProtocolVersion(version) THEN version ELSE mProtocolVersion
    /\ UNCHANGED <<poolVars, mThreads, mMaxThreads, mMaxIncomingConnections,
                   mShutdownTrigger, mEventListener, mShutdown, allEnded,
                   removedIncoming, mId, unguarded, pc, handles, use, workVars, setup>>

\* what the peer of a client session answers in its NewSessionResponse: a
\* released version or one this build does not know
ResponseVersions == {0, RPC_WIRE_PROTOCOL_VERSION_NEXT}

InitServer ==
    /\ InitEmptySession
    /\ InitThreads
    /\ pc = [t \in Threads |-> IF t \in Workers THEN "w_new" ELSE "idle"]
    /\ mMaxThreads \in 0..NumWorkers
    /\ mShutdownTrigger = "armed"
    /\ mEventListener = "server"
    /\ workload = [n |-> 0, m |-> 0]
    /\ callsLeft = [t \in Threads |-> 0]
    /\ setup = SetupRecord("none", "server", 0, 0)
    /\ SetForServer

NextServer ==
    \/ WorkerStep
    \/ \E threads \in 0..NumWorkers : SetMaxThreads(threads)
    \/ AddOutgoingBegin(AdderTid)
    \/ AddOutgoingEnd(AdderTid)

SpecServer == InitServer /\ [][NextServer]_vars

\* ---------------------------------------------------- a bounded workload of calls
\* on a session whose outgoing pool is set up: n callers of m synchronous calls each
InitCalls ==
    /\ InitThreads
    /\ pc = [t \in Threads |-> IF t \in Workers THEN "w_unborn" ELSE "idle"]
    /\ \E k \in 1..MaxOut :
           mOutgoingConnections = [i \in 1..k |-> RpcConnection(i, NoTid)]
    /\ mIncomingConnections = <<>>
    /\ mOutgoingConnectionsOffset = 0
    /\ mWaitingThreads = 0
    /\ mThreads = {}
    /\ mMaxThreads = 0
    /\ mMaxIncomingConnections = 0
    /\ mShutdown = FALSE
    /\ mShutdownTrigger = "armed"
    /\ mEventListener = "shutdown"
    /\ \E n \in 1..NumCallers, m \in 1..MaxCalls : workload = [n |-> n, m |-> m]
    /\ callsLeft = [t \in Threads |-> IF t \in 1..workload.n THEN workload.m ELSE 0]
    /\ setup = SetupRecord("preconnected", "done", 0, 0)
    /\ mId = "id"
    /\ unguarded = {"mProtocolVersion", "mId", "mMaxThreads"}

NextCalls ==
    \/ \E t \in Callers : Transact(t, CLIENT)
    \/ \E t \in Callers : FindRetry(t)
    \/ \E t \in Callers : SpuriousWakeup(t)
    \/ \E t \in Callers : IoComplete(t, "OK")
    \/ \E t \in Callers : CallReturn(t)

\* every thread that can take a step is scheduled, and the peer answers every call
SpecCalls ==
    /\ InitCalls
    /\ [][NextCalls]_vars
    /\ \A t \in Callers :
           /\ WF_vars(Transact(t, CLIENT))
           /\ WF_vars(FindRetry(t))
           /\ WF_vars(IoComplete(t, "OK"))
           /\ WF_vars(CallReturn(t))

\* ------------------------------------------------------------------ shutdown
\* what a transport read or write returns
TransportResults ==
    IF mShutdownTrigger = "fired" THEN {"CANCELLED"} ELSE {"OK", "DEAD_OBJECT"}

\* LOG_ALWAYS_FATAL_IF(!mThreads.empty(), "Shutdown failed"), then return true
ShutdownResult == IF mThreads # {} THEN "sd_fatal" ELSE "sd_done"

\* shutdownAndWait up to its return or to the first wait_for of waitForShutdown
ShutdownAndWait(wait) ==
    /\ pc[ShutdownTid] = "idle"
    /\ mShutdownTrigger # "null"
    /\ wait => mEventListener = "shutdown"
    /\ mShutdownTrigger' = "fired"
    /\ pc' = [pc EXCEPT ![ShutdownTid] = IF ~wait THEN "sd_nowait"
                                         ELSE IF mShutdown THEN ShutdownResult
                                         ELSE "sd_wait"]
    /\ UNCHANGED <<poolVars, mThreads, mMaxThreads, mMaxIncomingConnections,
                   mEventListener, mShutdown, allEnded, removedIncoming, mProtocolVersion, mId, unguarded, handles, use, status,
                   workVars, setup>>

\* waitForShutdown: wait_for returned and mShutdown is set
WaitForShutdown ==
    /\ pc[ShutdownTid] = "sd_wait"
    /\ mShutdown
    /\ pc' = [pc EXCEPT ![ShutdownTid] = ShutdownResult]
    /\ UNCHANGED <<poolVars, sessionVars, handles, use, status, workVars, setup>>

\* --------------------------------------------------------------- setupClient
InitShutdownTrigger ==
    /\ mShutdownTrigger' = IF mShutdownTrigger = "null" THEN "armed" ELSE mShutdownTrigger
    /\ mEventListener' = IF mShutdownTrigger = "null" THEN "shutdown" ELSE mEventListener

\* faulty variant: every connection is announced with the zero session id
SessionIdZero == "zero"

\* the sessionId setupClient passes to connectAndInit: RpcAddress::zero() for
\* the first connection, mId.value() for the others
SessionId == IF setup.stage = "seed" THEN "zero" ELSE mId

\* the RpcConnectionHeader initAndAddConnection writes
RpcConnectionHeader(sessionId, incoming) ==
    [sessionId |-> sessionId, options |-> IF incoming THEN {"INCOMING"} ELSE {}]

\* what connectAndInit reads with mMutex not held: mId.value() in setupClient
\* for every connection after the first, mProtocolVersion in initAndAddConnection
HeaderReads == {"mProtocolVersion"} \cup (IF setup.stage = "seed" THEN {} ELSE {"mId"})

\* what setupClient reads with mMutex not held when it goes on to the statement
\* of next: mMaxThreads in the condition of the loop of incoming connections
LoopReads(next) == IF next.stage \in {"incoming", "done"} THEN {"mMaxThreads"} ELSE {}

\* for (size_t i = 0; i < mMaxThreads; i++)
LoopIncoming(i, n) ==
    IF i < mMaxThreads THEN SetupAt("incoming", i, n) ELSE SetupAt("done", i, n)

\* for (size_t i = 0; i + 1 < numThreadsAvailable; i++)
LoopOutgoing(i, n) ==
    IF i + 1 < n THEN SetupAt("outgoing", i, n) ELSE LoopIncoming(0, n)

\* the stage at which setupClient is called: by setupInetClient for each
\* address it tries, by the other setup functions once
SetupClientCalled == IF setup.kind = "inet" THEN "addr" ELSE "new"

\* setupClient up to its first connectAndInit
SetupClientBegin ==
    /\ setup.stage = SetupClientCalled
    /\ pc[SetupTid] = "idle"
    /\ Len(mOutgoingConnections) = 0
    /\ InitShutdownTrigger
    /\ setup' = [SetupAt("seed", 0, 0)
                     EXCEPT !.headers = <<>>,
                            !.addrs = IF setup.kind = "inet" THEN @ - 1 ELSE @]
    /\ UNCHANGED <<poolVars, mThreads, mMaxThreads, mMaxIncomingConnections, mShutdown,
                   allEnded, removedIncoming, mProtocolVersion, mId, unguarded, pc, handles, use, status, workVars>>

\* setupOneSocketConnection: for (size_t tries = 0; tries < 5; tries++)
MaxConnectTries == 5

\* what one pass of the loop ends with: the socket is connected, connect or
\* getsockopt gave an errno, socket() failed, or triggerablePoll was cancelled
ConnectResults == {"OK", "ECONNRESET", "ECONNREFUSED", "EMFILE", "CANCELLED"}

\* if (connErrno == ECONNRESET) continue;
RetriesConnectAlways(connErrno) == connErrno # "OK"

RetriesConnect(connErrno) == connErrno = "ECONNRESET"

\* one pass of the loop of setupOneSocketConnection, up to the call of
\* initAndAddConnection, to the next pass or to the return of an error
ConnectAttempt(r) ==
    /\ setup.kind \in {"socket", "inet"}
    /\ setup.stage \in {"seed", "outgoing", "incoming"}
    /\ pc[SetupTid] = "idle"
    /\ r \in ConnectResults
    /\ r = "CANCELLED" => mShutdownTrigger = "fired"
    /\ IF r = "OK"
       THEN /\ pc' = [pc EXCEPT ![SetupTid] = "connected"]
            /\ setup' = [setup EXCEPT !.connErrno = r]
       ELSE /\ UNCHANGED pc
            /\ setup' =
                 IF RetriesConnect(r)
                 THEN IF setup.tries + 1 < MaxConnectTries
                      THEN [setup EXCEPT !.tries = @ + 1, !.connErrno = r]
                      ELSE [SetupReturn("UNKNOWN_ERROR")
                                EXCEPT !.tries = setup.tries + 1, !.connErrno = r]
                 ELSE [SetupReturn(r) EXCEPT !.tries = setup.tries, !.connErrno = r]
    /\ UNCHANGED <<poolVars, sessionVars, handles, use, status, workVars>>

\* where the setup thread is when connectAndInit has its connected fd
ConnectPc == IF setup.kind \in {"socket", "inet"} THEN "connected" ELSE "idle"

\* connectAndInit(id, false): connect, initAndAddConnection writes the header and
\* addOutgoingConnection runs its first locked section
ConnectAndInitOutgoing(s) ==
    /\ setup.stage \in {"seed", "outgoing"}
    /\ pc[SetupTid] = ConnectPc
    /\ s \in TransportResults
    /\ IF s = "OK"
       THEN /\ PushOutgoing(SetupTid)
            /\ setup' = [setup EXCEPT !.headers =
                                          Append(@, RpcConnectionHeader(SessionId, FALSE))]
       ELSE /\ setup' = SetupReturn(s)
            /\ pc' = [pc EXCEPT ![SetupTid] = "idle"]
            /\ UNCHANGED mOutgoingConnections
    /\ unguarded' = unguarded \cup HeaderReads
    /\ UNCHANGED <<mIncomingConnections, mOutgoingConnectionsOffset, mWaitingThreads,
                   guardedVars, mId, handles, use, status, workVars>>

\* addNullDebuggingClient up to the first locked section of addOutgoingConnection
AddNullDebuggingClient(opened) ==
    /\ setup.stage = "new"
    /\ pc[SetupTid] = "idle"
    /\ InitShutdownTrigger
    /\ IF opened
       THEN PushOutgoing(SetupTid) /\ setup' = SetupAt("null", 0, 0)
       ELSE setup' = SetupReturn("UNKNOWN_ERROR") /\ UNCHANGED <<mOutgoingConnections, pc>>
    /\ UNCHANGED <<mIncomingConnections, mOutgoingConnectionsOffset, mWaitingThreads,
                   mThreads, mMaxThreads, mMaxIncomingConnections, mShutdown, allEnded, removedIncoming, mProtocolVersion, mId, unguarded,
                   handles, use, status, workVars>>

\* if (init) mState->sendConnectionInit(connection, session): s is what it returns
SetupSendConnectionInit(s) ==
    /\ pc[SetupTid] = "add_init"
    /\ setup.stage \in {"seed", "outgoing"}
    /\ s \in TransportResults
    /\ pc' = [pc EXCEPT ![SetupTid] = "add_sent"]
    /\ status' = [status EXCEPT ![SetupTid] = s]
    /\ UNCHANGED <<poolVars, sessionVars, handles, use, workVars, setup>>

\* the second locked section of addOutgoingConnection, return status (which is
\* still the OK it was initialised with), and what setup does next
SetupAddOutgoingEnd ==
    /\ pc[SetupTid] = (IF setup.stage = "null" THEN "add_init" ELSE "add_sent")
    /\ setup.stage \in {"seed", "outgoing", "null"}
    /\ ReleaseAdded(SetupTid)
    /\ status' = [status EXCEPT ![SetupTid] = "NONE"]
    /\ setup' = CASE setup.stage = "seed" -> SetupAt("resp", 0, 0)
                  [] setup.stage = "outgoing" ->
                         LoopOutgoing(setup.i + 1, setup.numThreadsAvailable)
                  [] setup.stage = "null" -> SetupAt("null_done", 0, 0)
    /\ unguarded' = unguarded \cup LoopReads(setup')
    /\ UNCHANGED <<mIncomingConnections, mOutgoingConnectionsOffset, mWaitingThreads,
                   guardedVars, mId, handles, use, workVars>>

\* the three calls of setupClient on the first connection: readNewSessionResponse,
\* getRemoteMaxThreads and readId each begin with ExclusiveConnection::find
SetupFind ==
    /\ setup.stage \in {"resp", "maxthreads", "readid"}
    /\ pc[SetupTid] = "idle"
    /\ mWaitingThreads < MaxWaiting
    /\ FindStep(SetupTid, CLIENT, TRUE)
    /\ UNCHANGED <<mIncomingConnections, sessionVars, workVars, setup>>

\* readId past its find: mId = RpcAddress::zero() and getSessionId(.., &mId.value()),
\* with mMutex not held
WritesId == setup.stage = "readid" /\ status[SetupTid] # "WOULD_BLOCK"

\* such a call returns: n is what the peer gave as its number of threads and
\* version what readNewSessionResponse read
SetupCallReturn(n, version) ==
    /\ pc[SetupTid] = "ret"
    /\ n \in 0..MaxOut
    /\ pc' = [pc EXCEPT ![SetupTid] = "idle"]
    /\ status' = [status EXCEPT ![SetupTid] = "NONE"]
    /\ use' = [use EXCEPT ![SetupTid] = NoUse]
    /\ setup' = IF status[SetupTid] # "OK" THEN SetupReturn(status[SetupTid])
                ELSE CASE setup.stage = "resp" ->
                              IF setProtocolVersion(version)
                              THEN SetupAt("maxthreads", 0, 0)
                              ELSE SetupReturn("BAD_VALUE")
                       [] setup.stage = "maxthreads" -> SetupAt("readid", 0, n)
                       [] setup.stage = "readid" ->
                              LoopOutgoing(0, setup.numThreadsAvailable)
    /\ mProtocolVersion' =
           IF status[SetupTid] = "OK" /\ setup.stage = "resp" /\ setProtocolVersion(version)
           THEN version ELSE mProtocolVersion
    /\ mId' = IF WritesId THEN (IF status[SetupTid] = "OK" THEN "id" ELSE "zero") ELSE mId
    /\ unguarded' = unguarded \cup (IF WritesId THEN {"mId"} ELSE {}) \cup LoopReads(setup')
    /\ UNCHANGED <<poolVars, mThreads, mMaxThreads, mMaxIncomingConnections,
                   mShutdownTrigger, mEventListener, mShutdown, allEnded,
                   removedIncoming, handles, workVars>>

\* connectAndInit(id, true): the header is written and addIncomingConnection
\* starts the worker thread
SetupAddIncoming(s) ==
    /\ setup.stage = "incoming"
    /\ pc[SetupTid] = ConnectPc
    /\ s \in TransportResults
    /\ IF s = "OK"
       THEN /\ \E w \in Workers :
                   /\ pc[w] = "w_unborn"
                   /\ \A v \in Workers : pc[v] = "w_unborn" => w <= v
                   /\ pc' = [pc EXCEPT ![w] = "w_new", ![SetupTid] = "idle"]
            /\ setup' = [SetupAt("rendezvous", setup.i, setup.numThreadsAvailable)
                             EXCEPT !.headers =
                                        Append(@, RpcConnectionHeader(SessionId, TRUE))]
       ELSE /\ setup' = SetupReturn(s)
            /\ pc' = [pc EXCEPT ![SetupTid] = "idle"]
    /\ unguarded' = unguarded \cup HeaderReads
    /\ UNCHANGED <<poolVars, guardedVars, mId, handles, use, status, workVars>>

\* faulty variant: addIncomingConnection does not wait for the worker
OwnershipTransferredAtOnce == TRUE

\* ownershipTransferred: the worker thread has run preJoinThreadOwnership and
\* preJoinSetup
OwnershipTransferred == \A w \in Workers : pc[w] \notin {"w_new", "w_registered", "w_init"}

\* joinCv.wait(lock, [&] { return ownershipTransferred; }) returns: the worker is
\* past preJoinSetup
SetupRendezvous ==
    /\ setup.stage = "rendezvous"
    /\ OwnershipTransferred
    /\ setup' = LoopIncoming(setup.i + 1, setup.numThreadsAvailable)
    /\ unguarded' = unguarded \cup LoopReads(setup')
    /\ UNCHANGED <<poolVars, guardedVars, mId, pc, handles, use, status, workVars>>

\* ------------------------------------------------------------- a client session
\* from its construction: one thread sets it up (setupClient or
\* addNullDebuggingClient), callers use it, and one thread shuts it down
InitClient ==
    /\ InitEmptySession
    /\ InitThreads
    /\ pc = [t \in Threads |-> IF t \in Workers THEN "w_unborn" ELSE "idle"]
    /\ mMaxThreads \in 0..NumWorkers
    /\ mShutdownTrigger = "null"
    /\ mEventListener = "null"
    /\ workload = [n |-> ClientCallers, m |-> ClientCalls]
    /\ callsLeft = [t \in Threads |-> IF t \in 1..workload.n THEN workload.m ELSE 0]
    /\ setup = SetupRecord("preconnected", "new", 0, 0)
    /\ mId = "none"
    /\ unguarded = {}

SetupStep ==
    \/ SetupClientBegin
    \/ \E s \in {"OK", "DEAD_OBJECT", "CANCELLED"} : ConnectAndInitOutgoing(s)
    \/ \E opened \in BOOLEAN : AddNullDebuggingClient(opened)
    \/ \E s \in {"OK", "DEAD_OBJECT", "CANCELLED"} : SetupSendConnectionInit(s)
    \/ SetupAddOutgoingEnd
    \/ SetupFind
    \/ \E n \in 0..MaxOut, version \in ResponseVersions : SetupCallReturn(n, version)
    \/ \E s \in {"OK", "DEAD_OBJECT", "CANCELLED"} : SetupAddIncoming(s)
    \/ SetupRendezvous

ClientCallStep ==
    \/ \E t \in Callers, u \in ConnectionUse : Transact(t, u)
    \/ \E t \in Threads : FindRetry(t)
    \/ \E t \in Threads : SpuriousWakeup(t)
    \/ \E t \in Callers \cup Workers : CallReturn(t)
    \/ \E t \in Threads, s \in {"OK", "DEAD_OBJECT"} : IoComplete(t, s)
    \/ \E t \in Threads : IoCancel(t)

NextClient ==
    \/ SetupStep
    \/ ClientCallStep
    \/ WorkerStep
    \/ \E w \in Workers : WorkerReadCancel(w)
    \/ \E wait \in BOOLEAN : ShutdownAndWait(wait)
    \/ WaitForShutdown

\* steps a thread takes by itself once it is scheduled. What waits for the peer
\* (an answer, a command, a connection) is not among them, until the trigger has
\* fired: then every transport read and write returns
CallProgress(t) == FindRetry(t) \/ CallReturn(t) \/ IoCancel(t)

WorkerProgress(w) ==
    \/ PreJoinThreadOwnership(w)
    \/ AssignIncomingConnectionToThisThread(w)
    \/ ReadConnectionInit(w, "CANCELLED")
    \/ JoinStart(w)
    \/ \E s \in {"OK", "DEAD_OBJECT", "CANCELLED"} : CommandDone(w, s)
    \/ WorkerReadCancel(w)
    \/ JoinEraseThread(w)
    \/ RemoveIncomingConnection(w)
    \/ OnSessionAllIncomingThreadsEnded(w)
    \/ OnSessionIncomingThreadEnded(w)
    \/ CallProgress(w)

SetupProgress ==
    \/ ConnectAndInitOutgoing("CANCELLED")
    \/ SetupSendConnectionInit("CANCELLED")
    \/ SetupAddOutgoingEnd
    \/ SetupFind
    \/ \E n \in 0..MaxOut, version \in ResponseVersions : SetupCallReturn(n, version)
    \/ SetupAddIncoming("CANCELLED")
    \/ SetupRendezvous
    \/ FindRetry(SetupTid)
    \/ IoCancel(SetupTid)

SpecClient ==
    /\ InitClient
    /\ [][NextClient]_vars
    /\ \A t \in Callers : WF_vars(CallProgress(t))
    /\ \A w \in Workers : WF_vars(WorkerProgress(w))
    /\ WF_vars(SetupProgress)
    /\ WF_vars(WaitForShutdown)


\* ------------------------------------------------- a socket client session
\* from its construction: setupUnixDomainClient, setupVsockClient or
\* setupInetClient on one thread, setProtocolVersion on another, and a shutdown
\* without wait
InitSetup ==
    /\ InitEmptySession
    /\ InitThreads
    /\ pc = [t \in Threads |-> IF t \in Workers THEN "w_unborn" ELSE "idle"]
    /\ mMaxThreads \in 0..NumWorkers
    /\ mShutdownTrigger = "null"
    /\ mEventListener = "null"
    /\ workload = [n |-> 0, m |-> 0]
    /\ callsLeft = [t \in Threads |-> 0]
    /\ setup = SetupRecord("socket", "new", 0, 0)
    /\ mId = "none"
    /\ unguarded = {}

NextSetup ==
    \/ SetupClientBegin
    \/ \E r \in ConnectResults : ConnectAttempt(r)
    \/ \E s \in {"OK", "DEAD_OBJECT", "CANCELLED"} : ConnectAndInitOutgoing(s)
    \/ \E s \in {"OK", "DEAD_OBJECT", "CANCELLED"} : SetupSendConnectionInit(s)
    \/ SetupAddOutgoingEnd
    \/ SetupFind
    \/ \E s \in {"OK", "DEAD_OBJECT"} : IoComplete(SetupTid, s)
    \/ IoCancel(SetupTid)
    \/ \E n \in 0..MaxOut, version \in 0..MaxVersion : SetupCallReturn(n, version)
    \/ \E s \in {"OK", "DEAD_OBJECT", "CANCELLED"} : SetupAddIncoming(s)
    \/ SetupRendezvous
    \/ \E t \in 1..ClientCallers, version \in 0..MaxVersion : SetProtocolVersion(t, version)
    \/ WorkerStep
    \/ \E w \in Workers : WorkerReadCancel(w)
    \/ ShutdownAndWait(FALSE)

SpecSetup == InitSetup /\ [][NextSetup]_vars

\* ------------------------------------------------------------ setupInetClient
\* the most addresses getAddrInfo resolves a host to
MaxAddrs == 2

InitInet ==
    /\ InitEmptySession
    /\ InitThreads
    /\ pc = [t \in Threads |-> IF t \in Workers THEN "w_unborn" ELSE "idle"]
    /\ mMaxThreads \in 0..NumWorkers
    /\ mShutdownTrigger = "null"
    /\ mEventListener = "null"
    /\ workload = [n |-> 0, m |-> 0]
    /\ callsLeft = [t \in Threads |-> 0]
    /\ setup = SetupRecord("inet", "new", 0, 0)
    /\ mId = "none"
    /\ unguarded = {}

\* setupInetClient up to its loop: getAddrInfo gave a list of n addresses, or
\* nullptr (n = 0) and setupInetClient returns UNKNOWN_ERROR
GetAddrInfo(n) ==
    /\ setup.kind = "inet"
    /\ setup.stage = "new"
    /\ pc[SetupTid] = "idle"
    /\ n \in 0..MaxAddrs
    /\ setup' = IF n = 0
                THEN [SetupAt("returned", 0, 0) EXCEPT !.status = "UNKNOWN_ERROR"]
                ELSE [SetupAt("addr", 0, 0) EXCEPT !.addrs = n]
    /\ UNCHANGED <<poolVars, sessionVars, pc, handles, use, status, workVars>>

\* the loop of setupInetClient after a setupSocketClient that did not return OK:
\* ai = ai->ai_next, and return NAME_NOT_FOUND after the last address
InetNextAddress ==
    /\ setup.kind = "inet"
    /\ setup.stage = "failed"
    /\ pc[SetupTid] = "idle"
    /\ setup' = IF setup.addrs > 0
                THEN SetupAt("addr", 0, 0)
                ELSE [SetupAt("returned", 0, 0) EXCEPT !.status = "NAME_NOT_FOUND"]
    /\ UNCHANGED <<poolVars, sessionVars, pc, handles, use, status, workVars>>

\* setupClient called on a session that has an outgoing connection:
\* LOG_ALWAYS_FATAL_IF(mOutgoingConnections.size() != 0, "Must only setup session once")
SetupClientFatal ==
    /\ setup.stage = SetupClientCalled
    /\ pc[SetupTid] = "idle"
    /\ Len(mOutgoingConnections) # 0
    /\ setup' = SetupAt("fatal", 0, 0)
    /\ UNCHANGED <<poolVars, sessionVars, pc, handles, use, status, workVars>>

NextInet ==
    \/ \E n \in 0..MaxAddrs : GetAddrInfo(n)
    \/ InetNextAddress
    \/ SetupClientFatal
    \/ NextSetup

SpecInet == InitInet /\ [][NextInet]_vars

\* ------------------------------------------------------------------ properties
\* the owner of the connection a handle is bound to, NoTid if it left its pool
OwnerOf(c) ==
    IF c.pool = "out" THEN mOutgoingConnections[c.id].exclusiveTid
    ELSE IF IncomingIndex(c.id) # 0
         THEN mIncomingConnections[IncomingIndex(c.id)].exclusiveTid
         ELSE NoTid

HandlesOf(t) == {handles[t][k] : k \in 1..Len(handles[t])}

\* C1: every live handle is bound to a connection whose exclusiveTid is the
\* handle's own thread, so the handles on one connection are all of one thread
\* and no two threads hold a connection at the same time.
MutualExclusion ==
    /\ \A t \in Threads : \A h \in HandlesOf(t) : OwnerOf(h.conn) = t
    /\ \A t1, t2 \in Threads : \A h1 \in HandlesOf(t1), h2 \in HandlesOf(t2) :
           h1.conn = h2.conn => t1 = t2

\* a thread holds an outgoing connection twice (the inner handle reentrant) while
\* another thread waits for a connection and the adding thread owns the one it adds
MutualExclusionWitness ==
    \E t1, t2 \in Threads :
        /\ t1 # t2
        /\ \E h \in HandlesOf(t1) : h.conn.pool = "out" /\ ~h.reentrant
        /\ \E h \in HandlesOf(t1) : h.conn.pool = "out" /\ h.reentrant
        /\ pc[t2] = "find_wait"
        /\ pc[AdderTid] = "add_init"


\* ---- steps of find, recognised in a transition
\* t got a handle in this step
Acquired(t) == Len(handles'[t]) = Len(handles[t]) + 1

\* t entered find in this step: it got a handle, went to wait, or was turned away
EnteredFind(t) ==
    /\ pc[t] \in {"idle", "exec", "io"}
    /\ \/ Acquired(t)
       \/ handles'[t] = handles[t] /\ pc'[t] \in {"find_wait", "ret"}

\* the ConnectionUse of the find t ran in this step
StepUse(t) == IF Acquired(t) THEN Top(handles'[t]).use ELSE use'[t]

\* connections of either pool whose exclusiveTid is t
OwnedOut(t) == {i \in 1..Len(mOutgoingConnections) : mOutgoingConnections[i].exclusiveTid = t}
OwnedIn(t) == {k \in 1..Len(mIncomingConnections) : mIncomingConnections[k].exclusiveTid = t}

\* C5: a worker that owns an incoming connection with allowNested set and calls
\* find with CLIENT or CLIENT_REFCOUNT gets that connection, reentrant, in the
\* same pass (no wait), and no outgoing connection changes owner.
NestedCallReusesIncoming ==
    [][\A w \in Workers :
          (/\ EnteredFind(w)
           /\ StepUse(w) \in {CLIENT, CLIENT_REFCOUNT}
           /\ IncomingIndex(w) # 0
           /\ mIncomingConnections[IncomingIndex(w)].exclusiveTid = w
           /\ mIncomingConnections[IncomingIndex(w)].allowNested)
          => /\ Acquired(w)
             /\ pc'[w] = "io"
             /\ Top(handles'[w]).conn = InRef(w)
             /\ Top(handles'[w]).reentrant
             /\ mOutgoingConnections' = mOutgoingConnections]_vars

\* a worker that already took an outgoing connection (an async call) is given
\* its incoming connection for a nested CLIENT call, while an outgoing one is free
NestedCallReusesIncomingWitness ==
    \E w \in Workers :
        /\ Len(handles[w]) = 2
        /\ handles[w][1].conn.pool = "out"
        /\ handles[w][2] = Handle(InRef(w), TRUE, CLIENT)
        /\ \E i \in 1..Len(mOutgoingConnections) :
               mOutgoingConnections[i].exclusiveTid = NoTid

\* C6: a find by a thread that owns no connection, while the outgoing pool is
\* empty, is turned away with WOULD_BLOCK in its first pass, whatever the use;
\* no thread ever waits on the condition variable of an empty pool, and the
\* status is what the call hands to its caller.
WouldBlockWithoutBackChannel ==
    [][\A t \in Threads :
          /\ (EnteredFind(t) /\ OwnedOut(t) = {} /\ OwnedIn(t) = {}
                /\ Len(mOutgoingConnections) = 0)
             => (pc'[t] = "ret" /\ status'[t] = "WOULD_BLOCK" /\ handles'[t] = handles[t])
          /\ (pc'[t] = "find_wait" => Len(mOutgoingConnections') > 0)]_vars

\* two callers were turned away at the same time, one with each one-way use
WouldBlockWitness ==
    \E t1, t2 \in Callers :
        /\ pc[t1] = "ret" /\ status[t1] = "WOULD_BLOCK" /\ use[t1] = CLIENT_ASYNC
        /\ pc[t2] = "ret" /\ status[t2] = "WOULD_BLOCK" /\ use[t2] = CLIENT_REFCOUNT
        /\ mOutgoingConnections = <<>>
        /\ mWaitingThreads = 3

\* ---- who holds a connection
\* t is between the two locked sections of addOutgoingConnection for connection i
Adding(t, i) == pc[t] \in {"add_init", "add_sent"} /\ i = Len(mOutgoingConnections)

HoldsOutgoing(t, i) ==
    \/ \E h \in HandlesOf(t) : h.conn = OutRef(i) /\ ~h.reentrant
    \/ Adding(t, i)

\* positions of a worker between admission of its connection and its removal
Servicing(w) ==
    pc[w] \in {"w_init", "w_read", "exec", "io", "find_wait", "find_woken", "ret", "w_exit2"}

\* C8: exclusiveTid of a pooled connection is tid exactly when tid holds it: by a
\* non-reentrant handle, inside addOutgoingConnection, or as the worker that
\* services the incoming connection; a thread that holds nothing is named by no
\* pooled connection.
OwnerIffHeld ==
    /\ \A i \in 1..Len(mOutgoingConnections) :
           /\ mOutgoingConnections[i].exclusiveTid \in Threads \cup {NoTid}
           /\ \A t \in Threads :
                  mOutgoingConnections[i].exclusiveTid = t <=> HoldsOutgoing(t, i)
    /\ \A k \in 1..Len(mIncomingConnections) :
           LET c == mIncomingConnections[k]
           IN /\ c.exclusiveTid = c.id
              /\ c.id \in Workers
              /\ pc[c.id] \in {"w_init", "w_join", "w_read", "exec", "io", "find_wait",
                               "find_woken", "ret", "w_exit1", "w_exit2"}
    /\ \A w \in Workers : Servicing(w) => IncomingIndex(w) # 0
    /\ \A t \in Threads :
           (HandlesOf(t) = {} /\ pc[t] \notin {"add_init", "add_sent"} /\ IncomingIndex(t) = 0)
           => (OwnedOut(t) = {} /\ OwnedIn(t) = {})

\* a caller holds one outgoing connection, the adding thread owns the one it is
\* adding, and a worker that released its handle and left the pool owns nothing
OwnerIffHeldWitness ==
    /\ Len(mOutgoingConnections) = 2
    /\ pc[AdderTid] = "add_init"
    /\ \E t \in Callers : mOutgoingConnections[1].exclusiveTid = t
    /\ \E w \in Workers : pc[w] = "w_exit3" /\ allEnded = 1

\* C9: a find that gets a handle with CLIENT_ASYNC moves the offset to
\* (offset + 1) % size; every other step (a handle for CLIENT or CLIENT_REFCOUNT,
\* a find that waits or is turned away, a release) leaves it alone; and with all
\* outgoing connections free the async call is given the connection at the
\* offset. By induction k sequential async calls from offset i on a free pool use
\* the connections i, i+1, ..., i+k-1 (mod k).
AsyncRotation ==
    [][/\ \A t \in Threads :
             (Acquired(t) /\ StepUse(t) = CLIENT_ASYNC)
             => /\ mOutgoingConnectionsOffset' =
                       (mOutgoingConnectionsOffset + 1) % Len(mOutgoingConnections)
                /\ (\A i \in 1..Len(mOutgoingConnections) :
                        mOutgoingConnections[i].exclusiveTid = NoTid)
                   => Top(handles'[t]).conn = OutRef(mOutgoingConnectionsOffset + 1)
       /\ (~ \E t \in Threads : Acquired(t) /\ StepUse(t) = CLIENT_ASYNC)
          => mOutgoingConnectionsOffset' = mOutgoingConnectionsOffset]_vars

\* an async call took the last connection of a pool of two and the offset
\* wrapped around to 0
AsyncRotationWitness ==
    /\ Len(mOutgoingConnections) = 2
    /\ mOutgoingConnectionsOffset = 0
    /\ \E t \in Callers : handles[t] = <<Handle(OutRef(2), FALSE, CLIENT_ASYNC)>>
    /\ mOutgoingConnections[1].exclusiveTid = NoTid

\* C10: a handle got with CLIENT_ASYNC is bound to a connection of the outgoing
\* pool, also when its thread owns an incoming connection.
AsyncNeverIncoming ==
    \A t \in Threads : \A h \in HandlesOf(t) :
        h.use = CLIENT_ASYNC => (h.conn.pool = "out" /\ h.conn.id \in 1..Len(mOutgoingConnections))

\* a worker whose incoming connection allows nesting holds an async handle
AsyncNeverIncomingWitness ==
    \E w \in Workers :
        /\ IncomingIndex(w) # 0
        /\ mIncomingConnections[IncomingIndex(w)].allowNested
        /\ \E h \in HandlesOf(w) : h.use = CLIENT_ASYNC

\* ---- the bounded workload
\* callers that still have a call in progress or to make
Remaining == {t \in Callers : pc[t] # "idle" \/ callsLeft[t] > 0}

PoolDeadlock == Remaining # {} /\ \A t \in Remaining : pc[t] = "find_wait"

AllCallsDone ==
    /\ Remaining = {}
    /\ completed = workload.n * workload.m

\* C4: n callers that each make m synchronous CLIENT calls (find, I/O that
\* completes, release) on a session of k >= 1 outgoing connections, n > k
\* included, all finish under fair scheduling: in no reachable state is every
\* remaining caller blocked on the condition variable, no more than n*m calls
\* complete, and eventually all callers are done with exactly n*m completed calls.
NoPoolDeadlock ==
    /\ [](~PoolDeadlock)
    /\ [](completed <= workload.n * workload.m)
    /\ <>[]AllCallsDone

\* more callers than connections: one caller waits on the condition variable
\* while another is in its last call, all earlier calls completed
NoPoolDeadlockWitness ==
    /\ workload.n > Len(mOutgoingConnections)
    /\ workload.m = MaxCalls
    /\ completed = workload.n * workload.m - 2
    /\ \E t1, t2 \in Callers : pc[t1] = "find_wait" /\ pc[t2] = "io"

\* ---- shutdown
\* C2: the assertion of shutdownAndWait that mThreads is empty after the wait
\* never fails, and at the step in which shutdownAndWait(true) returns mThreads
\* and mIncomingConnections are both empty.
ShutdownPostcondition ==
    /\ [](pc[ShutdownTid] # "sd_fatal")
    /\ [][(pc[ShutdownTid] # "sd_done" /\ pc'[ShutdownTid] = "sd_done")
          => (mThreads' = {} /\ Len(mIncomingConnections') = 0)]_vars

\* C3: once setupClient has returned OK, whatever mMaxThreads and the peer's
\* number of threads are, a later shutdownAndWait(true) that waits eventually
\* returns, and a call blocked in transport I/O when the trigger has fired
\* returns CANCELLED.
ShutdownTerminates ==
    /\ []((setup.stage = "done" /\ pc[ShutdownTid] = "idle")
          => [](pc[ShutdownTid] = "sd_wait" => <>(pc[ShutdownTid] = "sd_done")))
    /\ \A t \in Callers :
           []((pc[t] = "io" /\ mShutdownTrigger = "fired")
              => <>(pc[t] = "ret" /\ status[t] = "CANCELLED"))

\* a thread inside find, inside the transport I/O of a call, or in a worker's read
Blocked(t) == pc[t] \in {"find_wait", "find_woken", "io", "w_read"}

\* C7: a thread that is blocked in find on the condition variable, in the I/O
\* of a call or in a worker's transport read when the trigger fires eventually
\* returns: from the firing of the trigger on it does not stay blocked forever.
ShutdownUnblocksEveryone ==
    \A t \in Threads :
        []((mShutdownTrigger = "armed" /\ Blocked(t))
           => []((mShutdownTrigger = "fired" /\ Blocked(t)) => <>(~Blocked(t))))

\* ---- the incoming pool
\* C11: in every reachable state the incoming pool is no larger than the
\* high-water mark mMaxIncomingConnections, which is no larger than mMaxThreads.
IncomingPoolBound ==
    /\ Len(mIncomingConnections) <= mMaxIncomingConnections
    /\ mMaxIncomingConnections <= mMaxThreads

\* w ran assignIncomingConnectionToThisThread in this step
Assigned(w) == pc[w] = "w_registered" /\ pc'[w] # "w_registered"

\* C12: once removeIncomingConnection has erased a connection, every later
\* assignIncomingConnectionToThisThread is rejected: the worker gets no
\* connection (status DEAD_OBJECT) and the pool and mMaxIncomingConnections stay
\* as they are.
DrainingGate ==
    [][\A w \in Workers :
          (removedIncoming /\ Assigned(w))
          => /\ pc'[w] = "w_join"
             /\ status'[w] = "DEAD_OBJECT"
             /\ mIncomingConnections' = mIncomingConnections
             /\ mMaxIncomingConnections' = mMaxIncomingConnections]_vars

\* a worker was turned away after another one left the pool, although the pool
\* is below mMaxThreads
DrainingGateWitness ==
    /\ removedIncoming
    /\ Len(mIncomingConnections) < mMaxThreads
    /\ \E w \in Workers : pc[w] = "w_join" /\ status[w] = "DEAD_OBJECT"

\* C20: once the session has been set up (an outgoing connection was added or an
\* incoming connection was admitted) no step changes mMaxThreads.
MaxThreadsImmutable ==
    [][(Len(mOutgoingConnections) > 0 \/ mMaxIncomingConnections > 0)
       => mMaxThreads' = mMaxThreads]_vars

\* C13: when setupClient has returned OK the outgoing pool holds as many
\* connections as the peer reported threads, and the largest size the incoming
\* pool ever had is the local mMaxThreads
SetupPoolSizes ==
    setup.stage = "done"
    => /\ Len(mOutgoingConnections) = setup.numThreadsAvailable
       /\ mMaxIncomingConnections = mMaxThreads

\* the same for a peer that reports at least one thread
SetupOutgoingSize ==
    (setup.stage = "done" /\ setup.numThreadsAvailable >= 1)
    => Len(mOutgoingConnections) = setup.numThreadsAvailable

SetupIncomingSize ==
    setup.stage = "done" => mMaxIncomingConnections = mMaxThreads

\* a step of the handshake has failed and setupClient has not looked at it yet
SendInitFailed == pc[SetupTid] = "add_sent" /\ status[SetupTid] # "OK"

SetupCallFailed ==
    /\ pc[SetupTid] = "ret"
    /\ status[SetupTid] # "OK"
    /\ setup.stage \in {"resp", "maxthreads", "readid"}

\* the worker addIncomingConnection started last came out of preJoinSetup with
\* an error
IncomingFailed ==
    /\ setup.stage = "rendezvous"
    /\ \E w \in Workers :
           /\ pc[w] = "w_join" /\ status[w] # "OK"
           /\ \A v \in Workers : v > w => pc[v] = "w_unborn"

\* C14: after a failed step of the handshake the next step of setupClient is its
\* return with an error
HandshakeFailuresAbortSetup ==
    [][(SendInitFailed \/ SetupCallFailed \/ IncomingFailed)
       => (setup' = setup \/ setup'.stage = "failed")]_vars

\* the part of it about the three calls on the first connection
SetupCallFailuresAbortSetup ==
    [][SetupCallFailed => (setup' = setup \/ setup'.stage = "failed")]_vars


\* C15: a protocol version that is set is never raised, by setProtocolVersion or
\* by a setup; setProtocolVersion with an unknown version or one above the
\* current one returns false and changes nothing; a setup whose
\* NewSessionResponse has a version above the current one returns BAD_VALUE
ProtocolVersionMonotonic ==
    [][/\ mProtocolVersion # NoVersion
          => (mProtocolVersion' # NoVersion /\ mProtocolVersion' <= mProtocolVersion)
       /\ \A version \in 0..MaxVersion :
             /\ (UnknownVersion(version) \/ RaisesVersion(version))
                => \A t \in Callers :
                       SetProtocolVersion(t, version)
                       => (status'[t] = "false" /\ mProtocolVersion' = mProtocolVersion)
             /\ RaisesVersion(version)
                => \A n \in 0..MaxOut :
                       (/\ setup.stage = "resp"
                        /\ status[SetupTid] = "OK"
                        /\ SetupCallReturn(n, version))
                       => /\ setup'.stage = "failed"
                          /\ setup'.status = "BAD_VALUE"
                          /\ mProtocolVersion' = mProtocolVersion]_vars

\* a caller capped the version at 0, had a later setProtocolVersion refused, and
\* the setup returned BAD_VALUE
ProtocolVersionWitness ==
    /\ mProtocolVersion = 0
    /\ \E t \in Callers : status[t] = "false"
    /\ setup.stage = "failed"
    /\ setup.status = "BAD_VALUE"

\* C16: setupOneSocketConnection makes at most 5 connect attempts, makes a
\* further one only after ECONNRESET, returns every other error at once,
\* goes on to initAndAddConnection when an attempt (the 5th included) succeeds,
\* and after 5 ECONNRESET returns an error with no connection added
ConnectRetry ==
    [][\A r \in ConnectResults :
          ConnectAttempt(r)
          => /\ setup.tries < 5
             /\ r = "OK" => (pc'[SetupTid] = "connected" /\ setup'.stage = setup.stage)
             /\ (r = "ECONNRESET" /\ setup.tries < 4)
                => /\ setup'.stage = setup.stage
                   /\ setup'.tries = setup.tries + 1
                   /\ pc'[SetupTid] = "idle"
             /\ (r = "ECONNRESET" /\ setup.tries = 4)
                => /\ setup'.stage = "failed"
                   /\ setup'.status = "UNKNOWN_ERROR"
             /\ r \notin {"OK", "ECONNRESET"}
                => /\ setup'.stage = "failed"
                   /\ setup'.status = r
             /\ r # "OK"
                => /\ mOutgoingConnections' = mOutgoingConnections
                   /\ mIncomingConnections' = mIncomingConnections
                   /\ \A w \in Workers : pc'[w] = pc[w]]_vars

\* four attempts ended with ECONNRESET and the fifth connected
ConnectRetryWitness == pc[SetupTid] = "connected" /\ setup.tries = 4

\* C17: when the transport I/O of a call on an outgoing connection fails, the
\* connection stays in the pool and loses its owner unless the handle was
\* reentrant, and nothing else in either pool changes
FailedCallKeepsSession ==
    [][\A t \in Threads :
          (/\ pc[t] = "io"
           /\ pc'[t] = "ret"
           /\ status'[t] = "DEAD_OBJECT"
           /\ Top(handles[t]).conn.pool = "out")
          => LET h == Top(handles[t])
                 c == h.conn.id
             IN /\ Len(mOutgoingConnections') = Len(mOutgoingConnections)
                /\ mIncomingConnections' = mIncomingConnections
                /\ \A i \in 1..Len(mOutgoingConnections) :
                       i # c => mOutgoingConnections'[i] = mOutgoingConnections[i]
                /\ mOutgoingConnections'[c].id = mOutgoingConnections[c].id
                /\ mOutgoingConnections'[c].exclusiveTid =
                       IF h.reentrant THEN mOutgoingConnections[c].exclusiveTid ELSE NoTid]_vars

\* the call of t failed on the only outgoing connection and u has bound that
\* connection since
FailedCallWitness ==
    \E t \in Callers, u \in Callers :
        /\ t # u
        /\ pc[t] = "ret" /\ status[t] = "DEAD_OBJECT" /\ handles[t] = <<>>
        /\ Len(mOutgoingConnections) = 1
        /\ mOutgoingConnections[1].exclusiveTid = u
        /\ handles[u] # <<>>

NonReentrant(t) == {k \in 1..Len(handles[t]) : ~handles[t][k].reentrant}

\* C18: a thread holds at most one non-reentrant handle and owns at most one
\* outgoing connection, and a find by a thread that owns an outgoing connection
\* gives it a reentrant handle on a connection it owns
OneExclusivePerThread ==
    /\ [](\A t \in Threads :
             /\ Cardinality(NonReentrant(t)) <= 1
             /\ Cardinality(OwnedOut(t)) <= 1)
    /\ [][\A t \in Threads :
             (Acquired(t) /\ OwnedOut(t) # {})
             => /\ Top(handles'[t]).reentrant
                /\ OwnerOf(Top(handles'[t]).conn) = t]_vars

\* a thread inside a call makes a further call on the same outgoing connection
OneExclusiveWitness ==
    \E t \in Threads :
        /\ Len(handles[t]) = 2
        /\ ~handles[t][1].reentrant
        /\ handles[t][2].reentrant
        /\ handles[t][1].conn.pool = "out"
        /\ handles[t][2].conn = handles[t][1].conn

\* C19: when shutdownAndWait(true) returns on a client session both pools are
\* empty
ShutdownDropsConnections ==
    [][(pc[ShutdownTid] # "sd_done" /\ pc'[ShutdownTid] = "sd_done")
       => (Len(mOutgoingConnections') = 0 /\ Len(mIncomingConnections') = 0)]_vars

\* the part of it about the incoming pool
ShutdownDropsIncoming ==
    [][(pc[ShutdownTid] # "sd_done" /\ pc'[ShutdownTid] = "sd_done")
       => Len(mIncomingConnections') = 0]_vars


\* threads between the increment of mWaitingThreads in find and find's return
InsideFind == {t \in Threads : pc[t] \in {"find_wait", "find_woken"}}

\* C23: mWaitingThreads is the number of threads inside find, so it is 0 when
\* no thread is inside find: every find that returned has decremented it
WaitingThreadsAccounting == mWaitingThreads = Cardinality(InsideFind)

\* t destroys its innermost ExclusiveConnection in this step
Released(t) == Len(handles'[t]) = Len(handles[t]) - 1

\* threads that this step takes out of mAvailableConnectionCv.wait
Woken == {w \in Threads : pc[w] = "find_wait" /\ pc'[w] = "find_woken"}

\* C24: the release of a non-reentrant handle clears the owner of its
\* connection and wakes one waiter exactly when mWaitingThreads > 0; the release
\* of a reentrant handle changes no pool, owner, offset or counter and wakes
\* nobody, so the thread still owns the connection
ReleaseSemantics ==
    [][\A t \in Threads :
          Released(t)
          => LET h == Top(handles[t])
             IN IF h.reentrant
                THEN /\ mOutgoingConnections' = mOutgoingConnections
                     /\ mIncomingConnections' = mIncomingConnections
                     /\ mOutgoingConnectionsOffset' = mOutgoingConnectionsOffset
                     /\ mWaitingThreads' = mWaitingThreads
                     /\ Woken = {}
                     /\ OwnerOf(h.conn) = t
                ELSE /\ h.conn.pool = "out"
                     /\ mOutgoingConnections' =
                            [mOutgoingConnections EXCEPT ![h.conn.id].exclusiveTid = NoTid]
                     /\ mIncomingConnections' = mIncomingConnections
                     /\ (mWaitingThreads > 0 /\ CvWaiters # {}) => Cardinality(Woken) = 1
                     /\ mWaitingThreads = 0 => Woken = {}]_vars

\* a caller has released the reentrant handle of a nested call and still owns
\* the connection of its outer call, while another released handle woke a waiter
ReleaseSemanticsWitness ==
    \E t \in Callers :
        /\ pc[t] = "ret"
        /\ status[t] \in {"OK", "DEAD_OBJECT"}
        /\ Len(handles[t]) = 1
        /\ ~handles[t][1].reentrant
        /\ OwnerOf(handles[t][1].conn) = t
        /\ \E w \in Threads \ {t} : pc[w] = "find_woken"


\* outgoing connections nobody owns
FreeOut == {i \in 1..Len(mOutgoingConnections) : mOutgoingConnections[i].exclusiveTid = NoTid}

\* whether the incoming connection w owns is marked allowNested
NestingAllowed(w) == \E k \in OwnedIn(w) : mIncomingConnections[k].allowNested

\* what a CLIENT_REFCOUNT find of w, owner of an incoming connection that does
\* not allow nesting, binds: a free outgoing connection if there is one,
\* else its incoming connection
RefcountBinds(w) ==
    LET h == Top(handles'[w])
    IN IF FreeOut # {}
       THEN /\ h.conn.pool = "out"
            /\ h.conn.id \in FreeOut
            /\ ~h.reentrant
       ELSE /\ h.conn = InRef(w)
            /\ h.reentrant

\* a CLIENT find of w does not end on w's incoming connection
ClientKeepsOffIncoming(w) ==
    (Acquired(w) /\ Top(handles'[w]).use = CLIENT /\ ~NestingAllowed(w) /\ FreeOut = {})
    => Top(handles'[w]).conn.pool # "in"

FirstFree ==
    LET n == Len(mOutgoingConnections)
        dist(i) == (i - 1 - mOutgoingConnectionsOffset + n) % n
    IN CHOOSE i \in FreeOut : \A j \in FreeOut : dist(i) <= dist(j)

\* a thread that owns no connection gets the first free outgoing one from the offset
BindsFirstFree(t) ==
    (Acquired(t) /\ OwnedOut(t) = {} /\ OwnedIn(t) = {})
    => /\ Top(handles'[t]).conn = OutRef(FirstFree)
       /\ ~Top(handles'[t]).reentrant
       /\ mOutgoingConnections'[FirstFree].exclusiveTid = t

\* the owned outgoing connection is chosen, reentrant
BindsOwnedOut(t) ==
    /\ Top(handles'[t]).conn.pool = "out"
    /\ Top(handles'[t]).conn.id \in OwnedOut(t)
    /\ Top(handles'[t]).reentrant

\* C26 as stated: a thread that owns no connection binds the first free
\* outgoing one in cyclic order from the offset, non-reentrant; a thread that
\* owns an outgoing connection gets that one, reentrant
SelectionOrder ==
    [][\A t \in Threads :
          /\ BindsFirstFree(t)
          /\ (Acquired(t) /\ OwnedOut(t) # {}) => BindsOwnedOut(t)]_vars

\* C26 amended: the second half for a thread that owns no incoming connection
SelectionOrderWithoutIncoming ==
    [][\A t \in Threads :
          /\ BindsFirstFree(t)
          /\ (Acquired(t) /\ OwnedOut(t) # {} /\ OwnedIn(t) = {}) => BindsOwnedOut(t)]_vars

\* a caller bound the second connection because the offset had moved on, and
\* another holds a reentrant handle on its own connection next to a free one
SelectionOrderWitness ==
    /\ Len(mOutgoingConnections) = 2
    /\ mOutgoingConnectionsOffset = 1
    /\ \E t \in Callers :
           /\ Len(handles[t]) = 2
           /\ handles[t][1].conn = OutRef(2)
           /\ handles[t][2].conn = OutRef(2)
           /\ handles[t][2].reentrant
           /\ mOutgoingConnections[1].exclusiveTid = NoTid


\* C27: a worker that leaves its command loop erases itself from mThreads, then
\* removes its connection from mIncomingConnections, then delivers
\* onSessionAllIncomingThreadsEnded if and only if that left the pool empty,
\* and delivers onSessionIncomingThreadEnded last; a worker that was not
\* admitted only erases itself from mThreads and delivers
\* onSessionIncomingThreadEnded
WorkerExitOrder ==
    [][\A w \in Workers :
          \* the connection is removed after the erase from mThreads
          /\ (IncomingIndex(w) # 0 /\ IncomingIndex(w)' = 0)
             => /\ w \notin mThreads
                /\ mThreads' = mThreads
                /\ pc'[w] = IF Len(mIncomingConnections') = 0 /\ mEventListener # "null"
                            THEN "w_allended" ELSE "w_exit3"
          \* the erase from mThreads of a worker without a connection is all it removes
          /\ (w \in mThreads /\ w \notin mThreads')
             => /\ mIncomingConnections' = mIncomingConnections
                /\ allEnded' = allEnded
                /\ pc'[w] = IF IncomingIndex(w) # 0 THEN "w_exit2" ELSE "w_exit3"
          \* onSessionAllIncomingThreadsEnded is delivered for an empty pool
          /\ (pc[w] = "w_allended" /\ pc'[w] # "w_allended")
             => /\ allEnded' = allEnded + 1
                /\ Len(mIncomingConnections) = 0
                /\ w \notin mThreads
                /\ pc'[w] = "w_exit3"
          /\ (allEnded' # allEnded) => \E v \in Workers : pc[v] = "w_allended"
          \* onSessionIncomingThreadEnded is the last thing a worker does
          /\ (pc[w] # "w_done" /\ pc'[w] = "w_done")
             => /\ pc[w] = "w_exit3"
                /\ w \notin mThreads
                /\ IncomingIndex(w) = 0
          /\ pc[w] = "w_done" => pc'[w] = "w_done"]_vars

\* one worker was admitted and one rejected, and both have delivered
\* onSessionIncomingThreadEnded
WorkerExitOrderWitness ==
    /\ \A w \in Workers : pc[w] = "w_done"
    /\ mMaxIncomingConnections = 1
    /\ allEnded = 1
    /\ mThreads = {}
    /\ Len(mIncomingConnections) = 0


\* the worker that addIncomingConnection started last
LastWorker == CHOOSE w \in Workers : pc[w] # "w_unborn" /\ \A v \in Workers : v > w => pc[v] = "w_unborn"

\* C30: when addIncomingConnection returns, its worker has registered itself in
\* mThreads and its connection was admitted to mIncomingConnections or
\* rejected; a worker is in mThreads when its connection enters the pool
RendezvousOnWorkerStart ==
    [][/\ (setup.stage = "rendezvous" /\ setup'.stage # "rendezvous")
          => pc[LastWorker] \notin {"w_unborn", "w_new", "w_registered"}
       /\ \A w \in Workers :
             (IncomingIndex(w) = 0 /\ IncomingIndex(w)' # 0) => w \in mThreads]_vars

\* addIncomingConnection has returned twice, both workers are registered and
\* both connections are in the pool
RendezvousWitness ==
    /\ setup.stage = "done"
    /\ setup.i = 2
    /\ Len(mIncomingConnections) = 2
    /\ \A w \in Workers : w \in mThreads

\* C29: every read and write of the pools, the thread registry, mWaitingThreads,
\* mOutgoingConnectionsOffset, mId, mProtocolVersion, mMaxThreads and
\* mMaxIncomingConnections is made by a thread that holds mMutex, in every
\* operation, client setup, readId and setForServer included.
MutexDiscipline == unguarded = {}

\* the positions in the headers written so far of those with INCOMING set or clear
HeadersWith(incoming) ==
    {k \in 1..Len(setup.headers) : ("INCOMING" \in setup.headers[k].options) = incoming}

\* C28: client setup opens one first outgoing connection whose header carries the
\* zero session id with INCOMING clear, then reads the protocol version, the
\* remote thread count and the session id, then opens the other outgoing
\* connections and only after all of them the incoming ones; every header after
\* the first carries the learned session id, and INCOMING is set exactly in the
\* headers of incoming connections.
ClientSetupSequence ==
    /\ setup.headers # <<>> => setup.headers[1] = [sessionId |-> "zero", options |-> {}]
    /\ \A k \in 2..Len(setup.headers) : setup.headers[k].sessionId = "id"
    /\ setup.stage \in {"new", "seed"} => mProtocolVersion = NoVersion /\ mId = "none"
    /\ setup.stage \in {"resp", "maxthreads", "readid"} => Len(setup.headers) = 1
    /\ setup.stage \in {"maxthreads", "readid"} => mProtocolVersion # NoVersion
    /\ setup.stage \in {"resp", "maxthreads"} => mId = "none"
    /\ Len(setup.headers) >= 2 => mProtocolVersion # NoVersion /\ mId = "id"
    /\ \A j \in HeadersWith(TRUE), k \in HeadersWith(FALSE) : k < j
    /\ setup.stage \notin {"null", "null_done"}
           => Cardinality(HeadersWith(FALSE)) = Len(mOutgoingConnections)
    /\ Cardinality(HeadersWith(TRUE)) = Cardinality({w \in Workers : pc[w] # "w_unborn"})
    /\ setup.stage = "done"
           => /\ Cardinality(HeadersWith(FALSE)) >= 1
              /\ Cardinality(HeadersWith(FALSE)) = IF setup.numThreadsAvailable = 0 THEN 1
                                                    ELSE setup.numThreadsAvailable
              /\ Cardinality(HeadersWith(TRUE)) = mMaxThreads

ClientSetupSequenceWitness ==
    /\ setup.stage = "done"
    /\ Cardinality(HeadersWith(FALSE)) = 2
    /\ Cardinality(HeadersWith(TRUE)) = 2

\* C21: when client setup returns the errno of a failed socket, connect or
\* getsockopt call, the outgoing pool, the incoming pool and the session id are
\* what they were before the operation: empty, empty and not set.
IoErrorLeavesSessionUnchanged ==
    (setup.stage = "failed" /\ setup.status \in {"ECONNREFUSED", "EMFILE"})
        => /\ mOutgoingConnections = <<>>
           /\ mIncomingConnections = <<>>
           /\ mId = "none"

\* C22: setupInetClient goes on to the next address when setup against an
\* earlier address failed, at whatever step it failed, and never aborts the
\* process because of an earlier failed attempt.
InetAddressFallback == setup.stage # "fatal"

\* C33: mOutgoingConnectionsOffset is 0 while the outgoing pool is empty and less
\* than its size otherwise, so the LOG_ALWAYS_FATAL_IF at the top of
\* findConnection never fires for the outgoing pool and the rotation never
\* divides by zero, whatever the uses of the calls and the growth of the pool.
OffsetInRange ==
    /\ Len(mOutgoingConnections) = 0 => mOutgoingConnectionsOffset = 0
    /\ Len(mOutgoingConnections) > 0
           => mOutgoingConnectionsOffset < Len(mOutgoingConnections)
    /\ ~BadIndexHint(mOutgoingConnections, mOutgoingConnectionsOffset)

\* the offset has rotated to the last connection of a pool that has grown, while
\* a oneway call holds a connection
OffsetInRangeWitness ==
    /\ Len(mOutgoingConnections) = MaxOut
    /\ mOutgoingConnectionsOffset = MaxOut - 1
    /\ \E t \in Threads : \E k \in 1..Len(handles[t]) : handles[t][k].use = CLIENT_ASYNC

\* the workers that are inside their call of onSessionAllIncomingThreadsEnded
NotifyingAllEnded == {w \in Workers : pc[w] = "w_allended"}

\* C32: over the whole life of a session, whatever the order of admissions and
\* worker exits, onSessionAllIncomingThreadsEnded is called at most once, and
\* from the moment it is called mIncomingConnections is empty and stays empty.
AllEndedAtMostOnce ==
    /\ allEnded + Cardinality(NotifyingAllEnded) <= 1
    /\ allEnded + Cardinality(NotifyingAllEnded) >= 1 => mIncomingConnections = <<>>

\* two workers were admitted, both have ended and the listener was told once
AllEndedAtMostOnceWitness ==
    /\ allEnded = 1
    /\ mMaxIncomingConnections = 2
    /\ Cardinality({w \in Workers : pc[w] = "w_done"}) >= 2

\* the outgoing connections whose exclusiveTid goes from a thread to nullopt in
\* this step
OwnerCleared ==
    {i \in 1..Len(mOutgoingConnections) :
         /\ mOutgoingConnections[i].exclusiveTid # NoTid
         /\ mOutgoingConnections'[i].exclusiveTid = NoTid}

\* C31: whenever the exclusiveTid of an outgoing connection is cleared while a
\* thread waits on mAvailableConnectionCv inside find, a waiter is notified,
\* whether the owner is cleared by the destructor of an ExclusiveConnection or
\* by the end of addOutgoingConnection.
NoLostWakeup ==
    [][(OwnerCleared # {} /\ CvWaiters # {}) => Woken # {}]_vars
====
